---------------------------- MODULE Spec2Model ----------------------------
(***************************************************************************)
(* A model of fhir_mcp_server/utils.py: the request tracer hooks, the      *)
(* client factory, the response normalizers, the outcome builders and the  *)
(* capability discoverer.                                                  *)
(*                                                                         *)
(* Python values are tagged records [t |-> type, v |-> payload] so that    *)
(* values of different Python types can be compared:                       *)
(*   None, bool, int, str, bytes, list (payload a sequence),               *)
(*   dict (payload a function from string keys to values).                 *)
(* The result of a call is [exc |-> "" or the exception type, val |-> v].  *)
(***************************************************************************)
EXTENDS Integers, Sequences, FiniteSets, TLC

VARIABLES
    op,             \* name of the last function of the module that was called
    arg,            \* its argument(s)
    res,            \* what the call produced: [exc, val]
    client,         \* the handle built by create_async_fhir_client
    log,            \* lines written by the last tracer hook
    pc,             \* get_capability_statement: position of the coroutine
    metadata_url,   \* get_capability_statement: its argument
    gets,           \* get_capability_statement: GET requests issued so far
    response,       \* get_capability_statement: what the transport delivered
    outcome         \* get_capability_statement: what the caller sees

vars == <<op, arg, res, client, log, pc, metadata_url, gets, response, outcome>>

-----------------------------------------------------------------------------
(* Bounds of the model *)

MaxEntries == 2      \* longest "entry" list of a bundle
MaxCaps == 2         \* longest list of capability descriptors
MaxFields == 2       \* most keys present in a resource given to build_user_profile

-----------------------------------------------------------------------------
(* Python values *)

PyNone == [t |-> "None", v |-> <<>>]
PyBool(b) == [t |-> "bool", v |-> b]
PyInt(n) == [t |-> "int", v |-> n]
PyStr(s) == [t |-> "str", v |-> s]
PyBytes(s) == [t |-> "bytes", v |-> s]
PyList(l) == [t |-> "list", v |-> l]
PyDict(f) == [t |-> "dict", v |-> f]

EmptyDict == PyDict(<<>>)

Return(v) == [exc |-> "", val |-> v]
Raise(e) == [exc |-> e, val |-> PyNone]

\* bool(x): the truth value Python gives x in a condition
Truthy(x) ==
    CASE x.t = "None" -> FALSE
      [] x.t = "bool" -> x.v
      [] x.t = "int" -> x.v # 0
      [] x.t \in {"str", "bytes"} -> Len(x.v) # 0
      [] x.t = "list" -> Len(x.v) # 0
      [] x.t = "dict" -> DOMAIN x.v # {}
      [] OTHER -> TRUE

IsSubstring(a, b) ==
    \E i \in 1..(Len(b) - Len(a) + 1) : SubSeq(b, i, i + Len(a) - 1) = a

\* `key in x` for a str key raises TypeError when x is no container of strs
InRaises(x) == x.t \in {"None", "bool", "int", "bytes"}

\* `key in x` for a str key, when it does not raise
InHolds(key, x) ==
    CASE x.t = "dict" -> key \in DOMAIN x.v
      [] x.t = "list" -> \E i \in 1..Len(x.v) : x.v[i] = PyStr(key)
      [] x.t = "str" -> IsSubstring(key, x.v)
      [] OTHER -> FALSE

\* d.get(key) of a dict
DictGet(d, key) == IF key \in DOMAIN d.v THEN d.v[key] ELSE PyNone

\* the dicts whose keys are a subset of Keys, each key k with a value of Vals[k]
RECURSIVE FunctionsOver(_, _)
FunctionsOver(K, Vals) ==
    IF K = {} THEN { <<>> }
    ELSE LET k == CHOOSE x \in K : TRUE IN
         { [j \in DOMAIN f \cup {k} |-> IF j = k THEN v ELSE f[j]] :
              f \in FunctionsOver(K \ {k}, Vals), v \in Vals[k] }

DictsOver(Keys, Vals) ==
    UNION { { PyDict(f) : f \in FunctionsOver(K, Vals) } : K \in SUBSET Keys }

SeqsUpTo(S, n) == UNION { [1..k -> S] : k \in 0..n }

-----------------------------------------------------------------------------
(* Response Normalizer: get_bundle_entries *)

\* the comprehension without its `if "resource" in entry` filter
RECURSIVE BundleResources_unfiltered(_)
BundleResources_unfiltered(entries) ==
    IF entries = <<>> THEN Return(PyList(<<>>))
    ELSE LET entry == Head(entries)
             rest == BundleResources_unfiltered(Tail(entries))
         IN  IF entry.t # "dict" THEN Raise("AttributeError")
             ELSE IF rest.exc # "" THEN rest
             ELSE Return(PyList(<<DictGet(entry, "resource")>> \o rest.val.v))

\* the list comprehension of get_bundle_entries, left to right
RECURSIVE BundleResources(_)
BundleResources(entries) ==
    IF entries = <<>> THEN Return(PyList(<<>>))
    ELSE LET entry == Head(entries) IN
         IF InRaises(entry) THEN Raise("TypeError")
         ELSE IF InHolds("resource", entry) /\ entry.t # "dict"
              THEN Raise("AttributeError")
         ELSE LET rest == BundleResources(Tail(entries)) IN
              IF rest.exc # "" THEN rest
              ELSE IF InHolds("resource", entry)
                   THEN Return(PyList(<<DictGet(entry, "resource")>> \o rest.val.v))
                   ELSE rest

\* `bundle and "entry" in bundle and isinstance(bundle["entry"], list)`, then
\* the new dict; `"entry" in bundle` and `bundle["entry"]` raise TypeError on
\* the types that do not support them
get_bundle_entries(bundle) ==
    IF ~Truthy(bundle) THEN Return(bundle)
    ELSE IF InRaises(bundle) THEN Raise("TypeError")
    ELSE IF ~InHolds("entry", bundle) THEN Return(bundle)
    ELSE IF bundle.t # "dict" THEN Raise("TypeError")
    ELSE IF bundle.v["entry"].t # "list" THEN Return(bundle)
    ELSE LET r == BundleResources(bundle.v["entry"].v) IN
         IF r.exc # "" THEN r
         ELSE Return(PyDict([k \in {"entry"} |-> r.val]))

-----------------------------------------------------------------------------
(* Response Normalizer: trim_resource_capabilities *)

\* one element of the comprehension: the dict literal with the two .get()s
TrimmedCapability(capability) ==
    PyDict([k \in {"name", "documentation"} |-> DictGet(capability, k)])

\* the filter written on the values instead of on the keys
KeepsCapability_by_value(capability) ==
    Truthy(DictGet(capability, "name")) \/ Truthy(DictGet(capability, "documentation"))

\* the filter of the comprehension
KeepsCapability(capability) ==
    InHolds("name", capability) \/ InHolds("documentation", capability)

RECURSIVE TrimList(_)
TrimList(capabilities) ==
    IF capabilities = <<>> THEN <<>>
    ELSE LET capability == Head(capabilities) IN
         IF KeepsCapability(capability)
         THEN <<TrimmedCapability(capability)>> \o TrimList(Tail(capabilities))
         ELSE TrimList(Tail(capabilities))

trim_resource_capabilities(capabilities) ==
    Return(PyList(TrimList(capabilities.v)))

-----------------------------------------------------------------------------
(* Response Normalizer: build_user_profile *)

fields_to_extract ==
    <<"id", "resourceType", "name", "gender", "birthDate", "telecom", "address">>

\* `if value` in place of `if value is not None`
ProfileTakes_truthy(value) == Truthy(value)

\* `if value is not None`
ProfileTakes(value) == value # PyNone

\* the loop over fields_to_extract[i..], adding to profile
RECURSIVE ProfileLoop(_, _, _)
ProfileLoop(resource, i, profile) ==
    IF i > Len(fields_to_extract) THEN profile
    ELSE LET field == fields_to_extract[i]
             value == DictGet(resource, field)
         IN  IF ProfileTakes(value)
             THEN ProfileLoop(resource, i + 1,
                      [k \in DOMAIN profile \cup {field} |->
                          IF k = field THEN value ELSE profile[k]])
             ELSE ProfileLoop(resource, i + 1, profile)

build_user_profile(resource) ==
    Return(PyDict(ProfileLoop(resource, 1, <<>>)))

-----------------------------------------------------------------------------
(* Outcome Builder *)

\* an optional argument the caller left out
Missing == [t |-> "missing", v |-> <<>>]

\* the value a parameter takes: the argument, or its default when left out
Param(given, default) == IF given = Missing THEN default ELSE given

\* the builder with severity and code swapped in the issue
get_operation_outcome_swapped(code, diagnostics, severity) ==
    Return(PyDict([k \in {"resourceType", "issue"} |->
        IF k = "resourceType" THEN PyStr("OperationOutcome")
        ELSE PyList(<<PyDict([j \in {"severity", "code", "diagnostics"} |->
                 CASE j = "severity" -> code
                   [] j = "code" -> Param(severity, PyStr("error"))
                   [] j = "diagnostics" -> diagnostics])>>)]))

get_operation_outcome(code, diagnostics, severity) ==
    Return(PyDict([k \in {"resourceType", "issue"} |->
        IF k = "resourceType" THEN PyStr("OperationOutcome")
        ELSE PyList(<<PyDict([j \in {"severity", "code", "diagnostics"} |->
                 CASE j = "severity" -> Param(severity, PyStr("error"))
                   [] j = "code" -> code
                   [] j = "diagnostics" -> diagnostics])>>)]))

get_operation_outcome_exception ==
    get_operation_outcome(PyStr("exception"),
        PyStr("An unexpected internal error has occurred."), Missing)

\* f"A required element {element} is missing."
RequiredDiagnostics(element) ==
    PyStr("A required element " \o element.v \o " is missing.")

get_operation_outcome_required_error(element) ==
    get_operation_outcome(PyStr("required"),
        RequiredDiagnostics(Param(element, PyStr(""))), Missing)

-----------------------------------------------------------------------------
(* The inputs the normalizers and outcome builders are called with *)

Resources ==
    { PyDict([k \in {"resourceType"} |-> PyStr("Patient")]),
      PyDict([k \in {"resourceType"} |-> PyStr("Observation")]) }

\* entries of a bundle: mappings with an optional "resource" (possibly null)
EntryDicts ==
    DictsOver({"resource", "fullUrl"},
              [resource |-> Resources \cup {PyNone}, fullUrl |-> {PyStr("urn:uuid:1")}])

\* entries that are no mappings
MalformedEntries == { PyNone, PyStr("resource") }

EntryLists == { PyList(l) : l \in SeqsUpTo(EntryDicts \cup MalformedEntries, MaxEntries) }

\* mappings: with or without "entry", whose value is a list or something else
BundleDicts ==
    DictsOver({"entry", "total"},
              [entry |-> EntryLists \cup {PyNone, PyStr("entry"), EmptyDict},
               total |-> {PyInt(2)}])

\* inputs that are no mappings
NonMappings ==
    { PyNone, PyBool(FALSE), PyBool(TRUE), PyInt(0), PyInt(5),
      PyStr(""), PyStr("abc"), PyStr("no entry here"),
      PyList(<<>>), PyList(<<PyStr("abc")>>), PyList(<<PyStr("entry")>>) }

BundleInputs == BundleDicts \cup NonMappings

CapabilityDicts ==
    DictsOver({"name", "documentation", "type"},
              [name |-> {PyNone, PyStr("Patient")},
               documentation |-> {PyNone, PyStr("Demographics")},
               type |-> {PyStr("Patient")}])

CapabilityInputs == { PyList(l) : l \in SeqsUpTo(CapabilityDicts, MaxCaps) }

ResourceKeys ==
    {"id", "resourceType", "name", "gender", "birthDate", "telecom", "address",
     "meta", "identifier"}

\* a value of a field: null, an empty (falsy) value, or a proper one
FieldValues == { PyNone, PyStr(""), PyList(<<>>), PyStr("x") }

ResourceInputs ==
    UNION { { PyDict(f) : f \in [K -> FieldValues] }
            : K \in { S \in SUBSET ResourceKeys : Cardinality(S) <= MaxFields } }

Codes == { PyStr("required"), PyStr("exception"), PyStr("invalid") }
Diagnostics == { PyStr("X missing"), PyStr("") }
Severities == { Missing, PyStr("error"), PyStr("warning") }
Elements == { Missing, PyStr(""), PyStr("X"), PyStr("Patient.id") }

OutcomeInputs == Codes \X Diagnostics \X Severities

NotCalled == [exc |-> "pending", val |-> PyNone]

NoArg == PyNone

-----------------------------------------------------------------------------
(* Normalizers and outcome builders: one call of one function *)

Others == <<client, log, pc, metadata_url, gets, response, outcome>>

Call_get_bundle_entries ==
    /\ op = "get_bundle_entries" /\ res = NotCalled
    /\ res' = get_bundle_entries(arg)
    /\ UNCHANGED <<op, arg, Others>>

Call_trim_resource_capabilities ==
    /\ op = "trim_resource_capabilities" /\ res = NotCalled
    /\ res' = trim_resource_capabilities(arg)
    /\ UNCHANGED <<op, arg, Others>>

Call_build_user_profile ==
    /\ op = "build_user_profile" /\ res = NotCalled
    /\ res' = build_user_profile(arg)
    /\ UNCHANGED <<op, arg, Others>>

Call_get_operation_outcome ==
    /\ op = "get_operation_outcome" /\ res = NotCalled
    /\ res' = get_operation_outcome(arg[1], arg[2], arg[3])
    /\ UNCHANGED <<op, arg, Others>>

Call_get_operation_outcome_exception ==
    /\ op = "get_operation_outcome_exception" /\ res = NotCalled
    /\ res' = get_operation_outcome_exception
    /\ UNCHANGED <<op, arg, Others>>

Call_get_operation_outcome_required_error ==
    /\ op = "get_operation_outcome_required_error" /\ res = NotCalled
    /\ res' = get_operation_outcome_required_error(arg)
    /\ UNCHANGED <<op, arg, Others>>

IdleOthers ==
    /\ client = PyNone /\ log = <<>> /\ pc = "idle" /\ metadata_url = ""
    /\ gets = <<>> /\ response = [exc |-> "none", status |-> 0, body |-> ""]
    /\ outcome = NotCalled

InitNorm ==
    /\ res = NotCalled
    /\ \/ op = "get_bundle_entries" /\ arg \in BundleInputs
       \/ op = "trim_resource_capabilities" /\ arg \in CapabilityInputs
       \/ op = "build_user_profile" /\ arg \in ResourceInputs
       \/ op = "get_operation_outcome" /\ arg \in OutcomeInputs
       \/ op = "get_operation_outcome_exception" /\ arg = NoArg
       \/ op = "get_operation_outcome_required_error" /\ arg \in Elements
    /\ IdleOthers

NextNorm ==
    \/ Call_get_bundle_entries
    \/ Call_trim_resource_capabilities
    \/ Call_build_user_profile
    \/ Call_get_operation_outcome
    \/ Call_get_operation_outcome_exception
    \/ Call_get_operation_outcome_required_error

SpecNorm == InitNorm /\ [][NextNorm]_vars

-----------------------------------------------------------------------------
(* Client Factory *)

\* aiohttp.TraceConfig() with the three hooks appended to its signals
trace_config ==
    PyDict([on_request_start |-> PyList(<<PyStr("on_request_start")>>),
            on_request_end |-> PyList(<<PyStr("on_request_end")>>),
            on_request_exception |-> PyList(<<PyStr("on_request_exception")>>)])

\* client_kwargs before the token is looked at
BaseKwargs(config, extra_headers) ==
    [url |-> config.server_base_url,
     aiohttp_config |->
         PyDict([timeout |-> PyDict([total |-> config.mcp_request_timeout]),
                 trace_configs |-> PyList(<<trace_config>>)]),
     extra_headers |-> extra_headers]

\* client_kwargs["authorization"] = f"Bearer {access_token}"
WithAuthorization(kwargs, access_token) ==
    [k \in DOMAIN kwargs \cup {"authorization"} |->
        IF k = "authorization"
        THEN PyStr("Bearer " \o (IF access_token.t = "str" THEN access_token.v ELSE "None"))
        ELSE kwargs[k]]

\* the factory without the `if access_token:` test
create_async_fhir_client_unconditional(config, access_token, extra_headers) ==
    Return(PyDict(WithAuthorization(BaseKwargs(config, Param(extra_headers, PyNone)),
                                    Param(access_token, PyNone))))

\* The handle is AsyncFHIRClient(**client_kwargs); it is modelled by the
\* keyword arguments it is constructed from.
create_async_fhir_client(config, access_token, extra_headers) ==
    LET token == Param(access_token, PyNone)
        kwargs == BaseKwargs(config, Param(extra_headers, PyNone))
    IN  IF Truthy(token)
        THEN Return(PyDict(WithAuthorization(kwargs, token)))
        ELSE Return(PyDict(kwargs))

-----------------------------------------------------------------------------
(* Request Tracer *)

\* an object without special methods; v tells whether its __str__ works
PyObject(kind) == [t |-> "object", v |-> kind]

\* str(x) of a value: [exc, val]
PyStrOf(x) ==
    CASE x.t = "str" -> Return(x)
      [] x.t = "bytes" -> Return(PyStr("b'" \o x.v \o "'"))
      [] x.t = "None" -> Return(PyStr("None"))
      [] x.t = "object" ->
            IF x.v = "printable" THEN Return(PyStr("<object>")) ELSE Raise("RuntimeError")
      [] OTHER -> Return(PyStr("<" \o x.t \o ">"))

\* the types json.dumps encodes without calling `default`
JsonNative(x) == x.t \in {"None", "bool", "int", "str", "list", "dict"}

\* json.loads(json.dumps(x, default=str)): [exc, val]
RECURSIVE JsonRoundTrip(_)
JsonRoundTrip(x) ==
    CASE x.t = "list" ->
            LET parts == [i \in 1..Len(x.v) |-> JsonRoundTrip(x.v[i])] IN
            IF \E i \in 1..Len(x.v) : parts[i].exc # ""
            THEN Raise(parts[CHOOSE i \in 1..Len(x.v) : parts[i].exc # ""
                                 /\ \A j \in 1..(i - 1) : parts[j].exc = ""].exc)
            ELSE Return(PyList([i \in 1..Len(x.v) |-> parts[i].val]))
      [] x.t = "dict" ->
            LET parts == [k \in DOMAIN x.v |-> JsonRoundTrip(x.v[k])] IN
            IF \E k \in DOMAIN x.v : parts[k].exc # ""
            THEN Raise(parts[CHOOSE k \in DOMAIN x.v : parts[k].exc # ""].exc)
            ELSE Return(PyDict([k \in DOMAIN x.v |-> parts[k].val]))
      [] JsonNative(x) /\ x.t \notin {"list", "dict"} -> Return(x)
      [] OTHER -> PyStrOf(x)

\* a line of the log: what it is about, how it was rendered, and the value
LogLine(field, how, val) == [field |-> field, how |-> how, val |-> val]

\* getattr(obj, name) on an object given by its attributes
HasAttr(obj, name) == name \in DOMAIN obj.v

\* the headers block: {k: str(v) ...} of dict(params.headers), then json.dumps
HeaderLines(headers) ==
    IF headers.t # "dict"
    THEN <<LogLine("Headers", "error", PyStr("TypeError"))>>
    ELSE LET strs == [k \in DOMAIN headers.v |-> PyStrOf(headers.v[k])] IN
         IF \E k \in DOMAIN headers.v : strs[k].exc # ""
         THEN <<LogLine("Headers", "error",
                    PyStr(strs[CHOOSE k \in DOMAIN headers.v : strs[k].exc # ""].exc))>>
         ELSE <<LogLine("Headers", "json",
                    PyDict([k \in DOMAIN headers.v |-> strs[k].val]))>>

\* the body block, entered when params.data is truthy
BodyLines(data) ==
    IF data.t \in {"dict", "list"}
    THEN LET r == JsonRoundTrip(data) IN
         IF r.exc # "" THEN <<LogLine("Body", "error", PyStr(r.exc))>>
         ELSE <<LogLine("Body", "json", r.val)>>
    ELSE LET r == PyStrOf(data) IN
         IF r.exc # "" THEN <<LogLine("Body", "error", PyStr(r.exc))>>
         ELSE <<LogLine("Body", "str", r.val)>>

\* on_request_start(session, trace_config_ctx, params): the result of the
\* call and the lines logged. `params.data` is read outside any try block.
on_request_start(params) ==
    LET head == << LogLine("Tag", "str", PyStr("[FHIR API REQUEST]")),
                   LogLine("URL", "str", params.v["url"]),
                   LogLine("Method", "str", params.v["method"]) >>
                \o HeaderLines(params.v["headers"])
    IN  IF ~HasAttr(params, "data")
        THEN [res |-> Raise("AttributeError"), log |-> head]
        ELSE IF Truthy(params.v["data"])
        THEN [res |-> Return(PyNone), log |-> head \o BodyLines(params.v["data"])]
        ELSE [res |-> Return(PyNone), log |-> head]

on_request_end(params) ==
    [res |-> Return(PyNone),
     log |-> << LogLine("Tag", "str", PyStr("[FHIR API RESPONSE]")),
                LogLine("URL", "str", params.v["url"]),
                LogLine("Status", "str", params.v["response"].v["status"]),
                LogLine("Method", "str", params.v["method"]) >>]

on_request_exception(params) ==
    [res |-> Return(PyNone),
     log |-> << LogLine("Tag", "str", PyStr("[FHIR API ERROR]")),
                LogLine("URL", "str", params.v["url"]),
                LogLine("Method", "str", params.v["method"]),
                LogLine("Exception", "str", params.v["exception"]) >>]

-----------------------------------------------------------------------------
(* Client Factory and Request Tracer: a client is built, then requests are
   issued through it and the transport calls the hooks attached to it *)

Configs ==
    [server_base_url : {PyStr("https://fhir.example.org/r4"), PyStr("http://localhost:8080/fhir")},
     mcp_request_timeout : {PyInt(30), PyInt(5)}]

Tokens == { Missing, PyNone, PyStr(""), PyStr("abc123") }

ExtraHeaders ==
    { Missing, PyNone,
      PyDict([k \in {"X-Trace"} |-> PyStr("1")]),
      PyDict([k \in {"Authorization"} |-> PyStr("Basic dXNlcg==")]) }

RequestHeaders ==
    { PyDict([k \in {"Accept"} |-> PyStr("application/fhir+json")]),
      PyDict([k \in {"Content-Length"} |-> PyInt(12)]),
      PyDict([k \in {"X-Debug"} |-> PyObject("unprintable")]) }

\* request bodies; NoData stands for a params object without a `data` attribute
NoData == Missing

RequestBodies ==
    { NoData, PyNone, EmptyDict,
      PyDict([k \in {"resourceType"} |-> PyStr("Patient")]),
      PyDict([k \in {"photo"} |-> PyBytes("JFIF")]),
      PyBytes("JFIF"),
      PyList(<<PyObject("printable")>>),
      PyDict([k \in {"hook"} |-> PyObject("unprintable")]),
      PyObject("unprintable") }

\* the params object of a trace signal, given by its attributes
StartParams(method, headers, data) ==
    LET base == [url |-> PyStr("https://fhir.example.org/r4/Patient"),
                 method |-> PyStr(method), headers |-> headers]
    IN  IF data = NoData THEN PyDict(base)
        ELSE PyDict([k \in DOMAIN base \cup {"data"} |->
                        IF k = "data" THEN data ELSE base[k]])

EndParams(start, status) ==
    PyDict([k \in {"url", "method", "response"} |->
              IF k = "response" THEN PyDict([status |-> PyInt(status)]) ELSE start.v[k]])

ExceptionParams(start, exception) ==
    PyDict([k \in {"url", "method", "exception"} |->
              IF k = "exception" THEN PyStr(exception) ELSE start.v[k]])

\* the hooks a client has on a signal of its trace config
HooksOn(c, signal) ==
    LET signals == c.v["aiohttp_config"].v["trace_configs"].v[1].v[signal].v
    IN  { signals[i].v : i \in 1..Len(signals) }

Discoverer == <<pc, metadata_url, gets, response, outcome>>

CreateClient ==
    /\ client = PyNone
    /\ \E config \in Configs, access_token \in Tokens, extra_headers \in ExtraHeaders :
          /\ op' = "create_async_fhir_client"
          /\ arg' = <<config, access_token, extra_headers>>
          /\ res' = create_async_fhir_client(config, access_token, extra_headers)
          /\ client' = res'.val
    /\ UNCHANGED <<log, Discoverer>>

\* no request is in flight: none was started, the last one ended, or its
\* start hook raised and so aborted it
NoRequestInFlight ==
    \/ op \in {"create_async_fhir_client", "on_request_end", "on_request_exception"}
    \/ op = "on_request_start" /\ res.exc # ""

RequestStart ==
    /\ client # PyNone /\ NoRequestInFlight
    /\ "on_request_start" \in HooksOn(client, "on_request_start")
    /\ \E method \in {"GET", "POST"}, headers \in RequestHeaders, data \in RequestBodies :
          LET params == StartParams(method, headers, data)
              r == on_request_start(params)
          IN  /\ op' = "on_request_start"
              /\ arg' = params
              /\ res' = r.res
              /\ log' = r.log
    /\ UNCHANGED <<client, Discoverer>>

RequestEnd ==
    /\ op = "on_request_start" /\ res.exc = ""
    /\ "on_request_end" \in HooksOn(client, "on_request_end")
    /\ \E status \in {200, 404} :
          LET params == EndParams(arg, status)
              r == on_request_end(params)
          IN  /\ op' = "on_request_end"
              /\ arg' = params
              /\ res' = r.res
              /\ log' = r.log
    /\ UNCHANGED <<client, Discoverer>>

RequestException ==
    /\ op = "on_request_start" /\ res.exc = ""
    /\ "on_request_exception" \in HooksOn(client, "on_request_exception")
    /\ LET params == ExceptionParams(arg, "ClientConnectorError")
           r == on_request_exception(params)
       IN  /\ op' = "on_request_exception"
           /\ arg' = params
           /\ res' = r.res
           /\ log' = r.log
    /\ UNCHANGED <<client, Discoverer>>

InitClient ==
    /\ op = "none" /\ arg = NoArg /\ res = NotCalled
    /\ IdleOthers

NextClient == CreateClient \/ RequestStart \/ RequestEnd \/ RequestException

SpecClient == InitClient /\ [][NextClient]_vars

-----------------------------------------------------------------------------
(* Capability Discoverer: JSON parsing of the response body *)

Ch(s, i) == IF 1 <= i /\ i <= Len(s) THEN SubSeq(s, i, i) ELSE ""

StartsWith(s, i, word) ==
    i + Len(word) - 1 <= Len(s) /\ SubSeq(s, i, i + Len(word) - 1) = word

Digits == "0123456789"
IsDigit(c) == c # "" /\ \E d \in 1..Len(Digits) : Ch(Digits, d) = c
DigitValue(c) == (CHOOSE d \in 1..Len(Digits) : Ch(Digits, d) = c) - 1

ParseFail == [ok |-> FALSE, val |-> PyNone, pos |-> 0]
ParseOk(v, p) == [ok |-> TRUE, val |-> v, pos |-> p]

\* position of the quote that closes a string whose text starts at i; 0 if none
RECURSIVE ClosingQuote(_, _)
ClosingQuote(s, i) ==
    IF i > Len(s) THEN 0
    ELSE IF Ch(s, i) = "\"" THEN i
    ELSE ClosingQuote(s, i + 1)

RECURSIVE ParseNumber(_, _, _)
ParseNumber(s, i, acc) ==
    IF IsDigit(Ch(s, i)) THEN ParseNumber(s, i + 1, 10 * acc + DigitValue(Ch(s, i)))
    ELSE ParseOk(PyInt(acc), i)

ParseString(s, i) ==
    LET q == ClosingQuote(s, i + 1) IN
    IF Ch(s, i) # "\"" \/ q = 0 THEN ParseFail
    ELSE ParseOk(PyStr(SubSeq(s, i + 1, q - 1)), q + 1)

RECURSIVE ParseValue(_, _), ParseElements(_, _, _), ParseMembers(_, _, _)

ParseValue(s, i) ==
    LET c == Ch(s, i) IN
    CASE c = "{" -> IF Ch(s, i + 1) = "}" THEN ParseOk(EmptyDict, i + 2)
                    ELSE ParseMembers(s, i + 1, <<>>)
      [] c = "[" -> IF Ch(s, i + 1) = "]" THEN ParseOk(PyList(<<>>), i + 2)
                    ELSE ParseElements(s, i + 1, <<>>)
      [] c = "\"" -> ParseString(s, i)
      [] IsDigit(c) -> ParseNumber(s, i, 0)
      [] StartsWith(s, i, "null") -> ParseOk(PyNone, i + 4)
      [] StartsWith(s, i, "true") -> ParseOk(PyBool(TRUE), i + 4)
      [] StartsWith(s, i, "false") -> ParseOk(PyBool(FALSE), i + 5)
      [] OTHER -> ParseFail

\* the elements of an array from position i on, after those in acc
ParseElements(s, i, acc) ==
    LET e == ParseValue(s, i) IN
    IF ~e.ok THEN ParseFail
    ELSE LET list == Append(acc, e.val) IN
         CASE Ch(s, e.pos) = "," -> ParseElements(s, e.pos + 1, list)
           [] Ch(s, e.pos) = "]" -> ParseOk(PyList(list), e.pos + 1)
           [] OTHER -> ParseFail

\* the members of an object from position i on, after those in acc
ParseMembers(s, i, acc) ==
    LET key == ParseString(s, i) IN
    IF ~key.ok \/ Ch(s, key.pos) # ":" THEN ParseFail
    ELSE LET e == ParseValue(s, key.pos + 1) IN
         IF ~e.ok THEN ParseFail
         ELSE LET dict == [k \in DOMAIN acc \cup {key.val.v} |->
                             IF k = key.val.v THEN e.val ELSE acc[k]]
              IN  CASE Ch(s, e.pos) = "," -> ParseMembers(s, e.pos + 1, dict)
                    [] Ch(s, e.pos) = "}" -> ParseOk(PyDict(dict), e.pos + 1)
                    [] OTHER -> ParseFail

\* response.json(): the parsed body, or JSONDecodeError
response_json(body) ==
    LET r == ParseValue(body, 1) IN
    IF r.ok /\ r.pos = Len(body) + 1 THEN Return(r.val) ELSE Raise("JSONDecodeError")

-----------------------------------------------------------------------------
(* Capability Discoverer: get_capability_statement *)

\* get_default_headers with the Content-Type header left out
get_default_headers_accept_only ==
    PyDict([k \in {"Accept"} |-> PyStr("application/fhir+json")])

get_default_headers ==
    PyDict([k \in {"Accept", "Content-Type"} |-> PyStr("application/fhir+json")])

\* what the transport delivers for a GET: an exception, or a status and a body
TransportError(e) == [exc |-> e, status |-> 0, body |-> ""]
HttpResponse(status, body) == [exc |-> "", status |-> status, body |-> body]

\* response.raise_for_status()
raise_for_status(resp) ==
    IF resp.status >= 200 /\ resp.status <= 299 THEN Return(PyNone)
    ELSE Raise("HTTPStatusError")

\* the try block with the body returned through a normalizer
TryBlock_normalizing(resp) ==
    IF resp.exc # "" THEN Raise(resp.exc)
    ELSE IF raise_for_status(resp).exc # "" THEN raise_for_status(resp)
    ELSE LET metadata_json == response_json(resp.body) IN
         IF metadata_json.exc # "" THEN metadata_json
         ELSE IF Truthy(metadata_json.val) /\ metadata_json.val.t = "dict"
              THEN get_bundle_entries(metadata_json.val)
              ELSE metadata_json

\* the try block from the await on: `client.get` raises, or the status check
\* raises, or the parse raises, or the parsed body is returned
TryBlock(resp) ==
    IF resp.exc # "" THEN Raise(resp.exc)
    ELSE IF raise_for_status(resp).exc # "" THEN raise_for_status(resp)
    ELSE response_json(resp.body)

MetadataError == [exc |-> "ValueError", val |-> PyStr("Unable to fetch FHIR metadata")]

\* an except clause that names the HTTP errors only
ExceptClause_http_only(r) ==
    IF r.exc \in {"HTTPStatusError", "ConnectError", "ReadTimeout"} THEN MetadataError ELSE r

\* `except Exception as ex: ... raise ValueError(...)`
ExceptClause(r) == IF r.exc # "" THEN MetadataError ELSE r

Urls == { "https://fhir.example.org/r4/metadata", "http://localhost:8080/fhir/metadata" }

CapabilityBody ==
    "{\"resourceType\":\"CapabilityStatement\",\"rest\":[{\"mode\":\"server\"}]}"
BundleBody ==
    "{\"resourceType\":\"Bundle\",\"total\":1,\"entry\":[{\"resource\":{\"id\":\"7\"}},{\"fullUrl\":\"u\"}]}"
ListBody == "[{\"name\":\"Patient\",\"type\":\"Patient\"},true]"
NullBody == "null"

ValidBodies == { CapabilityBody, BundleBody, ListBody, NullBody }

InvalidBodies ==
    { "", "<html>Bad Gateway</html>", "{\"resourceType\":\"CapabilityStatement\"",
      "{\"rest\":[]}trailing" }

Statuses == { 200, 201, 204, 302, 404, 500 }

Responses ==
    { TransportError(e) : e \in {"ConnectError", "ReadTimeout", "UnsupportedProtocol"} }
    \cup { HttpResponse(st, b) : st \in Statuses, b \in ValidBodies \cup InvalidBodies }

NoResponse == TransportError("none")

Callers == <<op, arg, res, client, log>>

\* the coroutine up to its await: the headers, the log lines, the one GET
StartDiscovery ==
    /\ pc = "idle"
    /\ \E url \in Urls :
          /\ metadata_url' = url
          /\ gets' = Append(gets, [url |-> url, headers |-> get_default_headers])
    /\ pc' = "awaiting"
    /\ UNCHANGED <<response, outcome, Callers>>

\* the transport completes the GET
TransportCompletes ==
    /\ pc = "awaiting"
    /\ response' \in Responses
    /\ pc' = "resumed"
    /\ UNCHANGED <<metadata_url, gets, outcome, Callers>>

\* the coroutine from the await on, issuing the GET again after a failure
FinishDiscovery_retrying ==
    /\ pc = "resumed"
    /\ LET r == ExceptClause(TryBlock(response)) IN
       IF r.exc # ""
       THEN /\ gets' = Append(gets, gets[1])
            /\ pc' = "awaiting"
            /\ UNCHANGED outcome
       ELSE /\ outcome' = r
            /\ pc' = "done"
            /\ UNCHANGED gets
    /\ UNCHANGED <<metadata_url, response, Callers>>

\* the coroutine from the await to its end
FinishDiscovery ==
    /\ pc = "resumed"
    /\ outcome' = ExceptClause(TryBlock(response))
    /\ pc' = "done"
    /\ UNCHANGED <<metadata_url, gets, response, Callers>>

InitDiscover ==
    /\ op = "get_capability_statement" /\ arg = NoArg /\ res = NotCalled
    /\ client = PyNone /\ log = <<>>
    /\ pc = "idle" /\ metadata_url = "" /\ gets = <<>>
    /\ response = NoResponse /\ outcome = NotCalled

NextDiscover == StartDiscovery \/ TransportCompletes \/ FinishDiscovery

SpecDiscover == InitDiscover /\ [][NextDiscover]_vars

-----------------------------------------------------------------------------
(* Claims about the normalizers and the outcome builders (SpecNorm) *)

Called(f) == op = f /\ res # NotCalled

HasEntryList(x) == x.t = "dict" /\ "entry" \in DOMAIN x.v /\ x.v["entry"].t = "list"

EntriesAreMappings(b) ==
    \A i \in 1..Len(b.v["entry"].v) : b.v["entry"].v[i].t = "dict"

\* the j-th smallest element of a set of indices
IsRank(i, j, idx) == i \in idx /\ Cardinality({k \in idx : k <= i}) = j

C5_PassThroughWithoutEntryList ==
    (Called("get_bundle_entries") /\ ~HasEntryList(arg)) => res = Return(arg)

\* C6: trim_resource_capabilities returns, in order, one {name, documentation}
\* element (None for an absent key) per descriptor that has at least one of the
\* two keys, even with a null value, and drops exactly the descriptors with
\* neither; so the output is no longer than the input.
C6_TrimKeepsByKeyPresence ==
    Called("trim_resource_capabilities") =>
        LET in == arg.v
            idx == { i \in 1..Len(in) :
                       "name" \in DOMAIN in[i].v \/ "documentation" \in DOMAIN in[i].v }
        IN  /\ res.exc = ""
            /\ res.val.t = "list"
            /\ LET out == res.val.v
               IN  /\ Len(out) <= Len(in)
                   /\ Len(out) = Cardinality(idx)
                   /\ \A j \in 1..Len(out) :
                        /\ out[j].t = "dict"
                        /\ DOMAIN out[j].v = {"name", "documentation"}
                        /\ \E i \in idx :
                             /\ IsRank(i, j, idx)
                             /\ \A k \in {"name", "documentation"} :
                                  out[j].v[k] = IF k \in DOMAIN in[i].v
                                                THEN in[i].v[k] ELSE PyNone

\* a descriptor with neither key is dropped, the next one is kept on a null name
C6_Witness ==
    /\ Called("trim_resource_capabilities")
    /\ Len(arg.v) = 2
    /\ DOMAIN arg.v[1].v = {"type"}
    /\ DOMAIN arg.v[2].v = {"name"} /\ arg.v[2].v["name"] = PyNone
    /\ Len(res.val.v) = 1
    /\ res.val.v[1].v["name"] = PyNone

AllowList ==
    {"id", "resourceType", "name", "gender", "birthDate", "telecom", "address"}

\* C7: build_user_profile(resource) has key k iff k is in the allow-list and
\* resource[k] is present and not null, and then carries the source value.
C7_ProfileProjectsAllowList ==
    Called("build_user_profile") =>
        /\ res.exc = ""
        /\ res.val.t = "dict"
        /\ \A k \in ResourceKeys \cup DOMAIN res.val.v :
              /\ (k \in DOMAIN res.val.v) <=>
                    (k \in AllowList /\ k \in DOMAIN arg.v /\ arg.v[k] # PyNone)
              /\ (k \in DOMAIN res.val.v) => res.val.v[k] = arg.v[k]

\* a resource with a key outside the allow-list and an empty, non-null name
C7_Witness ==
    /\ Called("build_user_profile")
    /\ "meta" \in DOMAIN arg.v /\ arg.v["meta"] # PyNone
    /\ "name" \in DOMAIN arg.v /\ arg.v["name"] = PyStr("")
    /\ DOMAIN res.val.v = {"name"}

\* the shape of an Operation Outcome
OutcomeShape(severity, code, diagnostics) ==
    PyDict([resourceType |-> PyStr("OperationOutcome"),
            issue |-> PyList(<<PyDict([severity |-> PyStr(severity),
                                       code |-> PyStr(code),
                                       diagnostics |-> PyStr(diagnostics)])>>)])

\* C8: every outcome builder returns {resourceType: "OperationOutcome",
\* issue: [{severity, code, diagnostics}]} without raising:
\* get_operation_outcome carries its code and diagnostics, severity "error"
\* unless given; the exception builder uses code "exception" and a fixed
\* message; the required-error builder uses code "required" and a message
\* naming the element (the empty string when none is given).
C8_OutcomeBuildersShape ==
    /\ Called("get_operation_outcome") =>
          /\ res = Return(OutcomeShape(
                      IF arg[3] = Missing THEN "error" ELSE arg[3].v, arg[1].v, arg[2].v))
          /\ (arg = <<PyStr("required"), PyStr("X missing"), Missing>>) =>
                res = Return(OutcomeShape("error", "required", "X missing"))
    /\ Called("get_operation_outcome_exception") =>
          res = Return(OutcomeShape("error", "exception",
                           "An unexpected internal error has occurred."))
    /\ Called("get_operation_outcome_required_error") =>
          /\ res.exc = ""
          /\ res.val.v["issue"].v[1].v["diagnostics"].t = "str"
          /\ LET d == res.val.v["issue"].v[1].v["diagnostics"].v
                 e == IF arg = Missing THEN "" ELSE arg.v
             IN  /\ res = Return(OutcomeShape("error", "required", d))
                 /\ IsSubstring(e, d)
                 /\ (arg = PyStr("X")) => d = "A required element X is missing."
                 /\ (arg = Missing) => d = "A required element  is missing."

\* get_operation_outcome("required", "X missing") has returned
C8_Witness ==
    /\ Called("get_operation_outcome")
    /\ arg = <<PyStr("required"), PyStr("X missing"), Missing>>
    /\ res.val.v["issue"].v[1].v["severity"] = PyStr("error")

-----------------------------------------------------------------------------
(* Claims about the client factory and the request tracer (SpecClient) *)

Supplied(token) == token \notin {Missing, PyNone}

\* what the claim says of the handle apart from the authorization header
C9_Rest ==
    /\ res.exc = ""
    /\ res.val.v["url"] = arg[1].server_base_url
    /\ res.val.v["aiohttp_config"].v["timeout"].v["total"] = arg[1].mcp_request_timeout
    /\ HooksOn(res.val, "on_request_start") = {"on_request_start"}
    /\ HooksOn(res.val, "on_request_end") = {"on_request_end"}
    /\ HooksOn(res.val, "on_request_exception") = {"on_request_exception"}
    /\ res.val.v["extra_headers"] = (IF arg[3] = Missing THEN PyNone ELSE arg[3])

\* C9 as stated: the authorization header is "Bearer <token>" iff a token was
\* supplied, and absent otherwise; base URL, timeout, hooks and extra headers
\* are the given ones.
C9_AuthorizationIffSupplied ==
    Called("create_async_fhir_client") =>
        /\ IF Supplied(arg[2])
           THEN /\ "authorization" \in DOMAIN res.val.v
                /\ res.val.v["authorization"] = PyStr("Bearer " \o arg[2].v)
           ELSE "authorization" \notin DOMAIN res.val.v
        /\ C9_Rest

\* C9 (amended): the authorization header is "Bearer <token>" iff a non-empty
\* token was supplied; with no token, or the empty string as token, no
\* authorization header is set and construction succeeds. Base URL, timeout,
\* hooks and extra headers are the given ones.
C9_AuthorizationIffNonEmptyToken ==
    Called("create_async_fhir_client") =>
        /\ IF Supplied(arg[2]) /\ arg[2] # PyStr("")
           THEN /\ "authorization" \in DOMAIN res.val.v
                /\ res.val.v["authorization"] = PyStr("Bearer " \o arg[2].v)
           ELSE "authorization" \notin DOMAIN res.val.v
        /\ C9_Rest

\* the factory was called with the token "abc123" and extra headers
C9_Witness ==
    /\ Called("create_async_fhir_client")
    /\ arg[2] = PyStr("abc123")
    /\ arg[3] \notin {Missing, PyNone}
    /\ res.val.v["authorization"] = PyStr("Bearer abc123")

\* a value that cannot be rendered for the log, even by str(), occurs in x
RECURSIVE HasUnprintable(_)
HasUnprintable(x) ==
    CASE x.t = "object" -> x.v # "printable"
      [] x.t = "list" -> \E i \in 1..Len(x.v) : HasUnprintable(x.v[i])
      [] x.t = "dict" -> \E k \in DOMAIN x.v : HasUnprintable(x.v[k])
      [] OTHER -> FALSE

Placeholder(field) ==
    \E i \in 1..Len(log) : log[i].field = field /\ log[i].how = "error"

\* C10: on_request_start never raises, whatever request the transport passes;
\* headers or a body that cannot be serialized for logging are logged as a
\* placeholder error string, and the hook returns normally.
C10_StartHookNeverRaises ==
    Called("on_request_start") =>
        /\ res.exc = ""
        /\ HasUnprintable(arg.v["headers"]) => Placeholder("Headers")
        /\ (HasAttr(arg, "data") /\ HasUnprintable(arg.v["data"])) => Placeholder("Body")

-----------------------------------------------------------------------------
(* Claims about the capability discoverer (SpecDiscover) *)

Is2xx(status) == status \in 200..299

Unsuccessful(resp) ==
    resp.exc # "" \/ ~Is2xx(resp.status) \/ resp.body \in InvalidBodies

\* C1: when the exchange does not succeed (transport error or timeout, non-2xx
\* status, body that is no JSON), the caller sees
\* ValueError("Unable to fetch FHIR metadata") and nothing else.
C1_OneErrorKind ==
    (pc = "done" /\ Unsuccessful(response)) =>
        outcome = [exc |-> "ValueError", val |-> PyStr("Unable to fetch FHIR metadata")]

\* a 200 response whose body is no JSON has been turned into the ValueError
C1_Witness ==
    /\ pc = "done"
    /\ response.exc = "" /\ response.status = 200 /\ response.body \in InvalidBodies
    /\ outcome.exc = "ValueError"

\* C2: the call issues exactly one GET, to metadata_url with the two
\* fhir+json headers, never another one, and ends in one of two outcomes: the
\* parsed JSON or the generic error.
C2_SingleAttempt ==
    /\ Len(gets) <= 1
    /\ pc # "idle" =>
          /\ Len(gets) = 1
          /\ gets[1].url = metadata_url
          /\ gets[1].headers = PyDict([k \in {"Accept", "Content-Type"} |->
                                         PyStr("application/fhir+json")])
    /\ pc = "done" =>
          /\ outcome.exc \in {"", "ValueError"}
          /\ outcome.exc = "ValueError" => outcome.val = PyStr("Unable to fetch FHIR metadata")
          /\ ~ENABLED NextDiscover

\* the call has failed on a 500 and no second GET was made
C2_Witness ==
    /\ pc = "done"
    /\ response.status = 500
    /\ outcome.exc = "ValueError"
    /\ Len(gets) = 1

\* the value each valid body stands for
Parsed(body) ==
    CASE body = CapabilityBody ->
            PyDict([resourceType |-> PyStr("CapabilityStatement"),
                    rest |-> PyList(<<PyDict([mode |-> PyStr("server")])>>)])
      [] body = BundleBody ->
            PyDict([resourceType |-> PyStr("Bundle"),
                    total |-> PyInt(1),
                    entry |-> PyList(<<PyDict([resource |-> PyDict([id |-> PyStr("7")])]),
                                       PyDict([fullUrl |-> PyStr("u")])>>)])
      [] body = ListBody ->
            PyList(<<PyDict([name |-> PyStr("Patient"), type |-> PyStr("Patient")]),
                     PyBool(TRUE)>>)
      [] body = NullBody -> PyNone

\* C3: on a 2xx response whose body is JSON, the call returns the parsed
\* object as it is: nothing added, dropped or normalized.
C3_ReturnsParsedBodyUnmodified ==
    (pc = "done" /\ response.exc = "" /\ Is2xx(response.status)
        /\ response.body \in ValidBodies) =>
        outcome = Return(Parsed(response.body))

\* a 200 response carrying a bundle has been returned with its fields intact
C3_Witness ==
    /\ pc = "done"
    /\ response.exc = "" /\ response.status = 200 /\ response.body = BundleBody
    /\ outcome.exc = ""
    /\ DOMAIN outcome.val.v = {"resourceType", "total", "entry"}

=============================================================================
